---------------------------- MODULE Spec2Model ----------------------------
(***************************************************************************)
(* Dionela: video frames rendered as colourised letter-art.                *)
(*                                                                         *)
(*   print_video_as_text          (dionela.py)   streams to the terminal   *)
(*   video_to_dionela_text_video  (dionela2.py)  writes a tiled video file *)
(*                                                                         *)
(* One run of one of the two functions is modelled, statement group by     *)
(* statement group.  The multimedia library is the environment: whether    *)
(* the capture opens, the source size, how many frames it delivers and the *)
(* colour of every downscaled pixel are chosen nondeterministically.  A    *)
(* KeyboardInterrupt may arrive once the capture is open.                  *)
(***************************************************************************)
EXTENDS Integers, Sequences, FiniteSets

(* ------------------------------ bounds -------------------------------- *)
\* Largest source width in pixels (cap.get(CAP_PROP_FRAME_WIDTH)).
MaxW == 2
\* Largest number of frames the capture delivers before end-of-stream.
MaxFrames == 2

(* ------------------------------ inputs -------------------------------- *)
\* Source heights in pixels (cap.get(CAP_PROP_FRAME_HEIGHT)).
Heights == {1, 2}
\* Python's None, for the optional parameters (a value is a non-empty tuple).
None == << >>
\* The 'letters' argument: the empty string, and alphabets of length 2 and 3.
Alphabets == { << >>, <<"A", "B">>, <<"D", "I", "O">> }
\* The 'downscale' argument as an exact fraction <<numerator, denominator>>.
Downscales == { <<-1, 2>>, <<0, 1>>, <<1, 4>>, <<1, 2>>, <<2, 3>>, <<1, 1>> }
\* The 'background_threshold' argument: absent, or (10,10,10) as in __main__.
Thresholds == { None, <<10, 10, 10>> }
\* The 'fps_limit' argument of the streaming variant: absent (the video's own
\* rate is used) or 0 (frame_delay = 1.0 / fps_limit then divides by zero).
FpsLimits == { None, <<0>> }
\* Pixel colours <<b, g, r>> of the downscaled frame: the threshold itself
\* and one colour exceeding it in each single channel.
Colors == { <<10, 10, 10>>, <<11, 10, 10>>, <<10, 11, 10>>, <<10, 10, 11>> }

VARIABLES
    variant,               \* "stream" (dionela.py) or "tiled" (dionela2.py)
    openable,              \* environment: will cap.isOpened() be true
    letters, downscale, background_threshold, fps_limit,   \* arguments
    orig_w, orig_h,        \* environment: source size
    pc,                    \* position in the function body
    cap,                   \* capture handle: "none", "open", "failed", "released"
    out,                   \* writer handle (tiled): "none", "open", "released"
    cap_releases,          \* number of cap.release() calls made
    new_w, new_h,          \* the cell grid size
    global_letter_index,   \* streaming: the running letter counter
    letter_index,          \* tiled: the per-frame letter counter
    frame_index,           \* tiled: frames processed
    frames_read,           \* frames cap.read() has delivered
    y, x,                  \* loop indices of the cell being visited
    bgr,                   \* b, g, r of the last pixel read
    line_chars, text_lines,\* streaming: the row and the frame being built
    text_frame,            \* tiled: the canvas, one entry per cell
    printed,               \* streaming: frames printed to the terminal
    stdout_glyphs,         \* streaming: glyphs printed to the terminal so far
    written,               \* tiled: frames handed to out.write
    error_reported,        \* the "Error opening video" line was printed
    exc,                   \* exception in flight: "none" or its class name
    outcome,               \* "running", "returned", or "raised"
    interrupt              \* what had happened when a KeyboardInterrupt arrived

vars == << variant, openable, letters, downscale, background_threshold,
           fps_limit, orig_w, orig_h, pc, cap, out, cap_releases, new_w,
           new_h, global_letter_index, letter_index, frame_index, frames_read,
           y, x, bgr, line_chars, text_lines, text_frame, printed,
           stdout_glyphs, written, error_reported, exc, outcome, interrupt >>

config == << variant, openable, letters, downscale, background_threshold,
             fps_limit, orig_w, orig_h >>

(* ------------------------- pure helpers ------------------------------- *)
Max(a, b) == IF a >= b THEN a ELSE b

\* Python's int() of the quotient n/d (d > 0): truncation toward zero.
IntTrunc(n, d) == IF n >= 0 THEN n \div d ELSE -((-n) \div d)

\* max(1, int(orig * downscale)) without the clamp to 1.
ScaledSizeNoClamp(orig, ds) == IntTrunc(orig * ds[1], ds[2])

\* new_w = max(1, int(orig_w * downscale)); likewise new_h.
ScaledSize(orig, ds) == Max(1, IntTrunc(orig * ds[1], ds[2]))

\* A threshold test with strict bounds.
SuppressedStrict(c, thr) ==
    /\ thr # None
    /\ c[1] < thr[1] /\ c[2] < thr[2] /\ c[3] < thr[3]

\* background_threshold is not None and b <= tb and g <= tg and r <= tr
Suppressed(c, thr) ==
    /\ thr # None
    /\ c[1] <= thr[1] /\ c[2] <= thr[2] /\ c[3] <= thr[3]

\* letter_count = len(letters)
letter_count == Len(letters)

\* letters[index % letter_count]  (Python indexes from 0)
LetterAt(index) == letters[(index % letter_count) + 1]

\* A counter that is left alone.
SameIndex(index) == index

\* A counter that is incremented.
BumpIndex(index) == index + 1

\* the counter after a glyph was chosen: index += 1
NextIndex(index) == index + 1

\* streaming, suppressed cell: append " " and continue; the counter is kept
StreamSkipIndex(index) == index

\* tiled, suppressed cell: letter_index += 1, then continue
TiledSkipIndex(index) == index + 1

\* The blank the streaming variant appends, and an undrawn (black) cell.
Blank == <<" ">>

\* color_code + letter, resp. putText(letter, colour): colour, then letter.
Glyph(c, letter) == <<c, letter>>

\* An except clause that catches nothing.
CatchesNothing(e) == FALSE

\* except KeyboardInterrupt:
Catches(e) == e = "KeyboardInterrupt"

\* A check of the capture that never reports failure.
OpenNeverFails(h) == FALSE

\* if not cap.isOpened():
OpenFailed(h) == h # "open"

\* The cells of a list of rows, in row-major order.
RECURSIVE Flatten(_)
Flatten(rows) ==
    IF rows = << >> THEN << >> ELSE Head(rows) \o Flatten(Tail(rows))

\* Number of glyphs (non-blank cells) in a sequence of cells.
RECURSIVE CountGlyphs(_)
CountGlyphs(cells) ==
    IF cells = << >> THEN 0
    ELSE (IF Head(cells) = Blank THEN 0 ELSE 1) + CountGlyphs(Tail(cells))

(* ------------------------------ Init ---------------------------------- *)
Init ==
    /\ variant \in {"stream", "tiled"}
    /\ openable \in BOOLEAN
    /\ letters \in Alphabets
    /\ downscale \in Downscales
    /\ background_threshold \in Thresholds
    /\ fps_limit \in (IF variant = "stream" THEN FpsLimits ELSE {None})
    /\ orig_w \in 1..MaxW
    /\ orig_h \in Heights
    /\ pc = "start"
    /\ cap = "none"
    /\ out = "none"
    /\ cap_releases = 0
    /\ new_w = 0
    /\ new_h = 0
    /\ global_letter_index = 0
    /\ letter_index = 0
    /\ frame_index = 0
    /\ frames_read = 0
    /\ y = 0
    /\ x = 0
    /\ bgr = <<0, 0, 0>>
    /\ line_chars = << >>
    /\ text_lines = << >>
    /\ text_frame = << >>
    /\ printed = 0
    /\ stdout_glyphs = 0
    /\ written = 0
    /\ error_reported = FALSE
    /\ exc = "none"
    /\ outcome = "running"
    /\ interrupt = [seen |-> FALSE, at |-> "none", reads |-> 0, prints |-> 0]

(* ----------------- streaming: print_video_as_text --------------------- *)
\* cap = cv2.VideoCapture(video_path); if not cap.isOpened(): print; return
StreamOpen ==
    /\ variant = "stream" /\ pc = "start"
    /\ LET h == IF openable THEN "open" ELSE "failed" IN
       /\ cap' = h
       /\ IF OpenFailed(h)
          THEN /\ error_reported' = TRUE
               /\ outcome' = "returned"
               /\ pc' = "done"
          ELSE /\ pc' = "setup"
               /\ UNCHANGED <<error_reported, outcome>>
    /\ UNCHANGED << config, out, cap_releases, new_w, new_h,
                    global_letter_index, letter_index, frame_index,
                    frames_read, y, x, bgr, line_chars, text_lines,
                    text_frame, printed, stdout_glyphs, written, exc,
                    interrupt >>

\* Lines 40-65: frame_delay = 1.0 / fps_limit raises ZeroDivisionError for a
\* limit of 0, outside the try; otherwise the grid size and the counter are set.
StreamSetup ==
    /\ variant = "stream" /\ pc = "setup"
    /\ IF fps_limit = <<0>>
       THEN /\ exc' = "ZeroDivisionError"
            /\ outcome' = "raised"
            /\ pc' = "done"
            /\ UNCHANGED <<new_w, new_h, global_letter_index>>
       ELSE /\ new_w' = ScaledSize(orig_w, downscale)
            /\ new_h' = ScaledSize(orig_h, downscale)
            /\ global_letter_index' = 0
            /\ pc' = "read"
            /\ UNCHANGED <<exc, outcome>>
    /\ UNCHANGED << config, cap, out, cap_releases, letter_index,
                    frame_index, frames_read, y, x, bgr, line_chars,
                    text_lines, text_frame, printed, stdout_glyphs, written,
                    error_reported, interrupt >>

\* A KeyboardInterrupt before the try statement (e.g. in time.sleep(1)):
\* nothing catches it and no finally clause runs.
StreamInterruptSetup ==
    /\ variant = "stream" /\ pc = "setup"
    /\ exc' = "KeyboardInterrupt"
    /\ outcome' = "raised"
    /\ pc' = "done"
    /\ interrupt' = [seen |-> TRUE, at |-> pc, reads |-> frames_read,
                     prints |-> printed]
    /\ UNCHANGED << config, cap, out, cap_releases, new_w, new_h,
                    global_letter_index, letter_index, frame_index,
                    frames_read, y, x, bgr, line_chars, text_lines,
                    text_frame, printed, stdout_glyphs, written,
                    error_reported >>

\* ret, frame = cap.read(); if not ret: break; resize; cursor home;
\* text_lines = []; first row's line_chars = []
StreamRead ==
    /\ variant = "stream" /\ pc = "read"
    /\ \E ret \in BOOLEAN :
        IF ret
        THEN /\ cap = "open" /\ frames_read < MaxFrames
             /\ frames_read' = frames_read + 1
             /\ text_lines' = << >>
             /\ line_chars' = << >>
             /\ y' = 0 /\ x' = 0
             /\ pc' = "cell"
        ELSE /\ pc' = "finally"
             /\ UNCHANGED <<frames_read, text_lines, line_chars, y, x>>
    /\ UNCHANGED << config, cap, out, cap_releases, new_w, new_h,
                    global_letter_index, letter_index, frame_index, bgr,
                    text_frame, printed, stdout_glyphs, written,
                    error_reported, exc, outcome, interrupt >>

\* One pass of the inner loop body (lines 85-105) for cell (x, y), and the
\* loop bookkeeping that follows it (line 108 at the end of a row).
StreamCell ==
    /\ variant = "stream" /\ pc = "cell"
    /\ \E c \in Colors :
        /\ bgr' = c
        /\ IF Suppressed(c, background_threshold)
           THEN /\ global_letter_index' = StreamSkipIndex(global_letter_index)
                /\ LET row == Append(line_chars, Blank) IN
                   IF x + 1 < new_w
                   THEN /\ line_chars' = row /\ x' = x + 1
                        /\ UNCHANGED <<text_lines, y, pc>>
                   ELSE /\ text_lines' = Append(text_lines, row)
                        /\ line_chars' = << >>
                        /\ x' = 0 /\ y' = y + 1
                        /\ pc' = IF y + 1 < new_h THEN "cell" ELSE "print"
                /\ UNCHANGED exc
           ELSE IF letter_count = 0
           THEN \* letters[i % 0]: ZeroDivisionError, inside the try
                /\ exc' = "ZeroDivisionError"
                /\ pc' = "except"
                /\ UNCHANGED <<global_letter_index, line_chars, text_lines,
                               x, y>>
           ELSE /\ global_letter_index' = NextIndex(global_letter_index)
                /\ LET row == Append(line_chars,
                                     Glyph(c, LetterAt(global_letter_index)))
                   IN
                   IF x + 1 < new_w
                   THEN /\ line_chars' = row /\ x' = x + 1
                        /\ UNCHANGED <<text_lines, y, pc>>
                   ELSE /\ text_lines' = Append(text_lines, row)
                        /\ line_chars' = << >>
                        /\ x' = 0 /\ y' = y + 1
                        /\ pc' = IF y + 1 < new_h THEN "cell" ELSE "print"
                /\ UNCHANGED exc
    /\ UNCHANGED << config, cap, out, cap_releases, new_w, new_h,
                    letter_index, frame_index, frames_read, text_frame,
                    printed, stdout_glyphs, written, error_reported,
                    outcome, interrupt >>

\* frame_text = "\n".join(text_lines); print(frame_text)
StreamPrint ==
    /\ variant = "stream" /\ pc = "print"
    /\ printed' = printed + 1
    /\ stdout_glyphs' = stdout_glyphs + CountGlyphs(Flatten(text_lines))
    /\ pc' = "pace"
    /\ UNCHANGED << config, cap, out, cap_releases, new_w, new_h,
                    global_letter_index, letter_index, frame_index,
                    frames_read, y, x, bgr, line_chars, text_lines,
                    text_frame, written, error_reported, exc, outcome,
                    interrupt >>

\* Lines 117-122: sleep for the rest of the frame interval, if any.
StreamPace ==
    /\ variant = "stream" /\ pc = "pace"
    /\ pc' = "read"
    /\ UNCHANGED << config, cap, out, cap_releases, new_w, new_h,
                    global_letter_index, letter_index, frame_index,
                    frames_read, y, x, bgr, line_chars, text_lines,
                    text_frame, printed, stdout_glyphs, written,
                    error_reported, exc, outcome, interrupt >>

\* A KeyboardInterrupt anywhere inside the try body (lines 67-122).
StreamInterruptLoop ==
    /\ variant = "stream" /\ pc \in {"read", "cell", "print", "pace"}
    /\ exc' = "KeyboardInterrupt"
    /\ pc' = "except"
    /\ interrupt' = [seen |-> TRUE, at |-> pc, reads |-> frames_read,
                     prints |-> printed]
    /\ UNCHANGED << config, cap, out, cap_releases, new_w, new_h,
                    global_letter_index, letter_index, frame_index,
                    frames_read, y, x, bgr, line_chars, text_lines,
                    text_frame, printed, stdout_glyphs, written,
                    error_reported, outcome >>

\* except KeyboardInterrupt: print("\nInterrupted by user.")
\* Any other exception stays in flight through the finally clause.
StreamExcept ==
    /\ variant = "stream" /\ pc = "except"
    /\ exc' = IF Catches(exc) THEN "none" ELSE exc
    /\ pc' = "finally"
    /\ UNCHANGED << config, cap, out, cap_releases, new_w, new_h,
                    global_letter_index, letter_index, frame_index,
                    frames_read, y, x, bgr, line_chars, text_lines,
                    text_frame, printed, stdout_glyphs, written,
                    error_reported, outcome, interrupt >>

\* finally: cap.release(); print("Done."); then return or re-raise
StreamFinally ==
    /\ variant = "stream" /\ pc = "finally"
    /\ cap' = "released"
    /\ cap_releases' = cap_releases + 1
    /\ outcome' = IF exc = "none" THEN "returned" ELSE "raised"
    /\ pc' = "done"
    /\ UNCHANGED << config, out, new_w, new_h, global_letter_index,
                    letter_index, frame_index, frames_read, y, x, bgr,
                    line_chars, text_lines, text_frame, printed,
                    stdout_glyphs, written, error_reported, exc, interrupt >>

(* ------------- tiled: video_to_dionela_text_video --------------------- *)
\* text_frame = np.zeros(...): every cell of the canvas black.
ZeroCanvas(w, h) == [cell \in (0..(h - 1)) \X (0..(w - 1)) |-> Blank]

\* cap = cv2.VideoCapture(input_video_path); if not cap.isOpened(): print; return
TiledOpen ==
    /\ variant = "tiled" /\ pc = "start"
    /\ LET h == IF openable THEN "open" ELSE "failed" IN
       /\ cap' = h
       /\ IF OpenFailed(h)
          THEN /\ error_reported' = TRUE
               /\ outcome' = "returned"
               /\ pc' = "done"
          ELSE /\ pc' = "setup"
               /\ UNCHANGED <<error_reported, outcome>>
    /\ UNCHANGED << config, out, cap_releases, new_w, new_h,
                    global_letter_index, letter_index, frame_index,
                    frames_read, y, x, bgr, line_chars, text_lines,
                    text_frame, printed, stdout_glyphs, written, exc,
                    interrupt >>

\* Lines 49-72: the grid size, out = cv2.VideoWriter(...), frame_index = 0
TiledSetup ==
    /\ variant = "tiled" /\ pc = "setup"
    /\ new_w' = ScaledSize(orig_w, downscale)
    /\ new_h' = ScaledSize(orig_h, downscale)
    /\ out' = "open"
    /\ frame_index' = 0
    /\ pc' = "read"
    /\ UNCHANGED << config, cap, cap_releases, global_letter_index,
                    letter_index, frames_read, y, x, bgr, line_chars,
                    text_lines, text_frame, printed, stdout_glyphs, written,
                    error_reported, exc, outcome, interrupt >>

\* ret, frame = cap.read(); if not ret: break; frame_index += 1; resize;
\* text_frame = zeros; letter_index = 0
TiledRead ==
    /\ variant = "tiled" /\ pc = "read"
    /\ \E ret \in BOOLEAN :
        IF ret
        THEN /\ cap = "open" /\ frames_read < MaxFrames
             /\ frames_read' = frames_read + 1
             /\ frame_index' = frame_index + 1
             /\ text_frame' = ZeroCanvas(new_w, new_h)
             /\ letter_index' = 0
             /\ y' = 0 /\ x' = 0
             /\ pc' = "cell"
        ELSE /\ pc' = "finish"
             /\ UNCHANGED <<frames_read, frame_index, text_frame,
                            letter_index, y, x>>
    /\ UNCHANGED << config, cap, out, cap_releases, new_w, new_h,
                    global_letter_index, bgr, line_chars, text_lines,
                    printed, stdout_glyphs, written, error_reported, exc,
                    outcome, interrupt >>

\* One pass of the inner loop body (lines 92-124) for cell (x, y), and the
\* move to the next cell.
TiledCell ==
    /\ variant = "tiled" /\ pc = "cell"
    /\ \E c \in Colors :
        /\ bgr' = c
        /\ IF Suppressed(c, background_threshold)
           THEN /\ letter_index' = TiledSkipIndex(letter_index)
                /\ x' = IF x + 1 < new_w THEN x + 1 ELSE 0
                /\ y' = IF x + 1 < new_w THEN y ELSE y + 1
                /\ pc' = IF x + 1 < new_w \/ y + 1 < new_h
                         THEN "cell" ELSE "write"
                /\ UNCHANGED <<text_frame, exc, outcome>>
           ELSE IF letter_count = 0
           THEN \* letters[i % 0]: ZeroDivisionError, and no handler
                /\ exc' = "ZeroDivisionError"
                /\ outcome' = "raised"
                /\ pc' = "done"
                /\ UNCHANGED <<letter_index, text_frame, x, y>>
           ELSE /\ text_frame' =
                      [text_frame EXCEPT
                          ![<<y, x>>] = Glyph(c, LetterAt(letter_index))]
                /\ letter_index' = NextIndex(letter_index)
                /\ x' = IF x + 1 < new_w THEN x + 1 ELSE 0
                /\ y' = IF x + 1 < new_w THEN y ELSE y + 1
                /\ pc' = IF x + 1 < new_w \/ y + 1 < new_h
                         THEN "cell" ELSE "write"
                /\ UNCHANGED <<exc, outcome>>
    /\ UNCHANGED << config, cap, out, cap_releases, new_w, new_h,
                    global_letter_index, frame_index, frames_read,
                    line_chars, text_lines, printed, stdout_glyphs, written,
                    error_reported, interrupt >>

\* out.write(text_frame), and the progress line
TiledWrite ==
    /\ variant = "tiled" /\ pc = "write"
    /\ written' = written + 1
    /\ pc' = "read"
    /\ UNCHANGED << config, cap, out, cap_releases, new_w, new_h,
                    global_letter_index, letter_index, frame_index,
                    frames_read, y, x, bgr, line_chars, text_lines,
                    text_frame, printed, stdout_glyphs, error_reported, exc,
                    outcome, interrupt >>

\* A KeyboardInterrupt anywhere after the capture is open: the function has
\* no try statement, so it propagates and lines 133-136 never run.
TiledInterrupt ==
    /\ variant = "tiled" /\ pc \in {"setup", "read", "cell", "write", "finish"}
    /\ exc' = "KeyboardInterrupt"
    /\ outcome' = "raised"
    /\ pc' = "done"
    /\ interrupt' = [seen |-> TRUE, at |-> pc, reads |-> frames_read,
                     prints |-> written]
    /\ UNCHANGED << config, cap, out, cap_releases, new_w, new_h,
                    global_letter_index, letter_index, frame_index,
                    frames_read, y, x, bgr, line_chars, text_lines,
                    text_frame, printed, stdout_glyphs, written,
                    error_reported >>

\* Lines 133-136: cap.release(); out.release(); return
TiledFinish ==
    /\ variant = "tiled" /\ pc = "finish"
    /\ cap' = "released"
    /\ cap_releases' = cap_releases + 1
    /\ out' = "released"
    /\ outcome' = "returned"
    /\ pc' = "done"
    /\ UNCHANGED << config, new_w, new_h, global_letter_index, letter_index,
                    frame_index, frames_read, y, x, bgr, line_chars,
                    text_lines, text_frame, printed, stdout_glyphs, written,
                    error_reported, exc, interrupt >>

Next ==
    \/ StreamOpen
    \/ StreamSetup
    \/ StreamInterruptSetup
    \/ StreamRead
    \/ StreamCell
    \/ StreamPrint
    \/ StreamPace
    \/ StreamInterruptLoop
    \/ StreamExcept
    \/ StreamFinally
    \/ TiledOpen
    \/ TiledSetup
    \/ TiledRead
    \/ TiledCell
    \/ TiledWrite
    \/ TiledInterrupt
    \/ TiledFinish

Spec == Init /\ [][Next]_vars

(* ======================= properties of the runs ======================= *)
\* The cells of the streaming variant's current frame, in row-major order.
StreamCells == Flatten(text_lines) \o line_chars

\* The glyphs among the cells, blanks dropped.
IsGlyph(cell) == cell # Blank
GlyphsOnly(cells) == SelectSeq(cells, IsGlyph)

\* The colour and the letter of a glyph cell.
ColorOf(cell) == cell[1]
LetterOf(cell) == cell[2]

\* letters[k mod L], as the claims write it (k counted from 0).
Cyclic(k) == letters[(k % Len(letters)) + 1]

\* "b <= tb and g <= tg and r <= tr" for a threshold that is present.
UnderThreshold(c) ==
    /\ background_threshold # None
    /\ c[1] <= background_threshold[1]
    /\ c[2] <= background_threshold[2]
    /\ c[3] <= background_threshold[3]

\* Number of cells the tiled variant has visited in the current frame.
TiledVisited == y * new_w + x

\* Positions after the setup lines, where the grid size is in use.
GridPcs == {"read", "cell", "print", "pace", "except", "finally", "write",
            "finish"}

(* ---------------------------------------------------------------------- *)
\* C1 (as claimed): streaming variant with a threshold set, first frame: a
\* non-suppressed cell at row-major position k carries letters[k mod L],
\* whatever cells before it were suppressed.
C1_SuppressedCellsConsumeLetters ==
    (variant = "stream" /\ background_threshold # None /\ frames_read = 1)
    => LET cells == StreamCells IN
       \A k \in 1..Len(cells) :
          IsGlyph(cells[k]) => LetterOf(cells[k]) = Cyclic(k - 1)

(* ---------------------------------------------------------------------- *)
\* C2: tiled variant: within every frame the counter equals the number of
\* cells visited so far (it starts at 0 and advances on every cell, drawn
\* or suppressed), and every drawn cell (x, y) carries
\* letters[(y*W + x) mod L].
C2_TiledLetterByPosition ==
    variant = "tiled" =>
      /\ pc \in {"cell", "write"} => letter_index = TiledVisited
      /\ pc = "write" => letter_index = new_w * new_h
      /\ \A cell \in DOMAIN text_frame :
            IsGlyph(text_frame[cell])
            => LetterOf(text_frame[cell]) = Cyclic(cell[1] * new_w + cell[2])

\* A second frame, 2 columns wide, finished with its first cell suppressed
\* and a glyph drawn in the second row.
C2_Witness ==
    /\ variant = "tiled" /\ pc = "write" /\ frames_read = 2
    /\ new_w = 2 /\ new_h = 2
    /\ letters = <<"D", "I", "O">>
    /\ text_frame[<<0, 0>>] = Blank
    /\ IsGlyph(text_frame[<<1, 0>>])
    /\ IsGlyph(text_frame[<<1, 1>>])
    /\ LetterOf(text_frame[<<1, 1>>]) = "D"

(* ---------------------------------------------------------------------- *)
\* C3: both variants: a visited cell is left without a glyph exactly when a
\* threshold is present and b <= tb, g <= tg and r <= tr; with no threshold
\* every cell of a finished frame carries a glyph.
C3_SuppressionRule ==
    /\ (variant = "stream" /\ exc # "ZeroDivisionError")
       => LET cells == StreamCells IN
          /\ cells # << >>
             => (cells[Len(cells)] = Blank <=> UnderThreshold(bgr))
          /\ \A k \in 1..Len(cells) :
                IsGlyph(cells[k]) => ~UnderThreshold(ColorOf(cells[k]))
          /\ (background_threshold = None /\ pc = "print")
             => /\ Len(cells) = new_w * new_h
                /\ \A k \in 1..Len(cells) : IsGlyph(cells[k])
    /\ (variant = "tiled" /\ exc # "ZeroDivisionError")
       => /\ (pc \in {"cell", "write"} /\ TiledVisited > 0)
             => LET k == TiledVisited - 1 IN
                (text_frame[<<k \div new_w, k % new_w>>] = Blank
                    <=> UnderThreshold(bgr))
          /\ \A cell \in DOMAIN text_frame :
                IsGlyph(text_frame[cell])
                => ~UnderThreshold(ColorOf(text_frame[cell]))
          /\ (background_threshold = None /\ pc = "write")
             => \A cell \in DOMAIN text_frame : IsGlyph(text_frame[cell])

\* A streamed frame whose last cell has exactly the threshold colour and is
\* blank, next to a glyph whose colour exceeds the threshold in r only.
C3_Witness ==
    /\ variant = "stream" /\ pc = "print"
    /\ background_threshold = <<10, 10, 10>>
    /\ bgr = <<10, 10, 10>>
    /\ Len(StreamCells) = 4
    /\ StreamCells[4] = Blank
    /\ IsGlyph(StreamCells[3])
    /\ ColorOf(StreamCells[3]) = <<10, 10, 11>>

(* ---------------------------------------------------------------------- *)
\* C4: no threshold, alphabet of length L >= 1: the streaming variant gives
\* cell k of frame n (both from 0) the letter letters[(n*W*H + k) mod L]; the
\* tiled variant gives cell k of every frame letters[k mod L].
C4_CyclicLetters ==
    (background_threshold = None /\ Len(letters) > 0) =>
      /\ variant = "stream"
         => LET cells == StreamCells IN
            \A k \in 1..Len(cells) :
               /\ IsGlyph(cells[k])
               /\ LetterOf(cells[k]) =
                     Cyclic((frames_read - 1) * new_w * new_h + (k - 1))
      /\ variant = "tiled"
         => \A cell \in DOMAIN text_frame :
               cell[1] * new_w + cell[2] < TiledVisited
               => /\ IsGlyph(text_frame[cell])
                  /\ LetterOf(text_frame[cell]) =
                        Cyclic(cell[1] * new_w + cell[2])

\* The second streamed frame of a 2 x 2 grid with a 3-letter alphabet starts
\* at letters[4 mod 3].
C4_Witness ==
    /\ variant = "stream" /\ pc = "print" /\ frames_read = 2
    /\ background_threshold = None
    /\ letters = <<"D", "I", "O">>
    /\ new_w = 2 /\ new_h = 2
    /\ LetterOf(StreamCells[1]) = "I"

(* ---------------------------------------------------------------------- *)
\* C5 (as claimed): when the run has ended, every handle that was opened
\* has been released.
C5_HandlesReleasedOnEveryExit ==
    pc = "done" => (cap # "open" /\ out # "open")

(* ---------------------------------------------------------------------- *)
\* C6: streaming variant: once a KeyboardInterrupt has arrived inside the
\* frame loop, no further frame is read or printed, and the run ends with the
\* capture released exactly once and a normal return.
C6_InterruptInLoop ==
    (variant = "stream" /\ interrupt.seen /\ interrupt.at # "setup") =>
      /\ pc \in {"except", "finally", "done"}
      /\ frames_read = interrupt.reads
      /\ printed = interrupt.prints
      /\ pc # "done" => (cap = "open" /\ cap_releases = 0)
      /\ pc = "done" => /\ cap = "released" /\ cap_releases = 1
                        /\ exc = "none" /\ outcome = "returned"

\* An interrupt that arrived while the cells of the second frame were mapped,
\* after the run has ended.
C6_Witness ==
    /\ variant = "stream" /\ pc = "done"
    /\ interrupt.seen /\ interrupt.at = "cell"
    /\ frames_read = 2 /\ printed = 1
    /\ line_chars # << >>

(* ---------------------------------------------------------------------- *)
\* C7 (as claimed): with an empty alphabet or a downscale factor <= 0 no
\* frame is read, printed or written.
C7_InvalidConfigFailsFast ==
    (letters = << >> \/ downscale[1] <= 0)
    => (frames_read = 0 /\ printed = 0 /\ written = 0)

(* ---------------------------------------------------------------------- *)
\* C8: a capture that cannot be opened: the error is reported and the run
\* ends at once; no frame is read, no glyph is emitted, no writer is created
\* and nothing is written.
C8_OpenFailureAborts ==
    ~openable =>
      /\ pc \in {"start", "done"}
      /\ pc = "done" => (error_reported /\ outcome = "returned")
      /\ frames_read = 0
      /\ StreamCells = << >> /\ DOMAIN text_frame = {}
      /\ printed = 0 /\ stdout_glyphs = 0
      /\ out = "none" /\ written = 0

\* The tiled variant after a failed open.
C8_Witness ==
    /\ ~openable /\ variant = "tiled" /\ pc = "done" /\ cap = "failed"

(* ---------------------------------------------------------------------- *)
\* C9: for 0 < f <= 1 the grid is max(1, floor(W*f)) by max(1, floor(H*f)),
\* both positive, and the loops visit exactly that many columns and rows.
C9_GridSize ==
    (downscale[1] > 0 /\ downscale[1] <= downscale[2] /\ pc \in GridPcs) =>
      /\ new_w = Max(1, (orig_w * downscale[1]) \div downscale[2])
      /\ new_h = Max(1, (orig_h * downscale[1]) \div downscale[2])
      /\ new_w > 0 /\ new_h > 0
      /\ pc = "cell" => (x < new_w /\ y < new_h)
      /\ pc = "print" => /\ Len(text_lines) = new_h
                         /\ \A i \in 1..Len(text_lines) :
                               Len(text_lines[i]) = new_w
      /\ pc = "write" => /\ TiledVisited = new_w * new_h
                         /\ Cardinality(DOMAIN text_frame) = new_w * new_h

\* A 2-pixel-wide source at factor 1/4: floor(2/4) = 0, clamped to 1.
C9_Witness ==
    /\ pc = "print" /\ downscale = <<1, 4>>
    /\ orig_w = 2 /\ orig_h = 2
    /\ new_w = 1 /\ new_h = 1

=============================================================================
